---- MODULE Spec2Model ----
(***************************************************************************)
(* Keyed concurrency control of SummonerAgent (tooling/aurora):            *)
(*   - AsyncKeyedMutex: a table of per-key asyncio locks with reference    *)
(*     counts, guarded by one table lock (utils/async_keyed_mutex.py);     *)
(*   - SummonerAgent.keyed_receive: the registration of a handler and the  *)
(*     wrapper that runs it under the (route, key) lock with the optional  *)
(*     replay check on a sequence number (agent.py).                       *)
(*                                                                         *)
(* Tasks are asyncio tasks on one event loop: exactly one task runs at a   *)
(* time (variable running) and it keeps the loop until it suspends on an   *)
(* await that cannot complete at once or until its coroutine ends.  Every  *)
(* statement group of the code is one step of the running task.            *)
(***************************************************************************)
EXTENDS Integers, Sequences, FiniteSets, TLC

\* ------------------------------------------------------------------ bounds
MaxSeq == 2         \* sequence numbers carried by payloads: 1..MaxSeq
MaxRegs == 2        \* successful @keyed_receive registrations
MaxAbandoned == 1   \* task.cancel() calls that reach a task waiting for a key's lock
MaxDeliveries == 3  \* deliveries, where a finite set of them is considered

\* The deliveries in flight at one time run in two asyncio tasks.
Tasks == {1, 2}
NoTask == 0

\* Python's None is the empty tuple, a value v is <<v>> (an optional value).
None == <<>>
Some(v) == <<v>>

\* ------------------------------------------------------------ input domains
Keys == {"a", "b"}
SeqVals == 1..MaxSeq

\* A payload is a dict: a function whose domain is the set of fields present.
\* Field "id" holds the entity key, field "seq" holds None or an integer.
EmptyDict == [f \in {} |-> None]

\* The payloads the senders of a route produce.  "account:update" carries an
\* account id and a sequence number, either of which may be absent, and the
\* sequence may be None; "game:move" carries a player id and, from some
\* senders, a sequence number the receiver does not look at.
PayloadsFor(route) ==
  IF route = "account:update"
  THEN { EmptyDict, [f \in {"id"} |-> "a"], [id |-> "a", seq |-> None] }
       \cup { [id |-> key, seq |-> Some(v)] : key \in Keys, v \in SeqVals }
  ELSE { EmptyDict, [f \in {"id"} |-> "a"], [id |-> "a", seq |-> Some(1)] }

\* The calls of keyed_receive the agent program makes: raw route, key_by,
\* seq_by, the decorated function and the priority.
\* key_by / seq_by: "None", a field name "str:<field>", or "callable:<field>"
\* (a lambda p: p[<field>] as in the docstring's third example).
RegInputs ==
  { [route |-> " account:update ", key_by |-> "str:id", seq_by |-> "str:seq",
     fn |-> "on_account_update", priority |-> [int |-> TRUE, v |-> <<1>>]],
    [route |-> "game:move", key_by |-> "callable:id", seq_by |-> "None",
     fn |-> "on_move", priority |-> [int |-> FALSE, v |-> <<>>]],
    [route |-> "game:move ", key_by |-> "str:id", seq_by |-> "callable:seq",
     fn |-> "on_move", priority |-> [int |-> TRUE, v |-> <<2>>]],
    [route |-> "game:move", key_by |-> "None", seq_by |-> "str:seq",
     fn |-> "on_move", priority |-> [int |-> FALSE, v |-> <<>>]],
    [route |-> "account:update", key_by |-> "str:id", seq_by |-> "None",
     fn |-> "sync_handler", priority |-> [int |-> TRUE, v |-> <<1>>]] }

\* inspect.iscoroutinefunction(fn)
iscoroutinefunction(fn) == fn \in {"on_account_update", "on_move"}

\* str.strip() on the route strings of RegInputs
strip(route) ==
  IF route = " account:update " THEN "account:update"
  ELSE IF route = "game:move " THEN "game:move" ELSE route

Routes == { strip(i.route) : i \in RegInputs }
LockKeys == Routes \X Keys

\* --------------------------------------------------------------- variables
VARIABLES
  \* SummonerClient state used by keyed_receive
  _dna_receivers,     \* introspection log: sequence of DNA records
  scheduled,          \* register() coroutines handed to _schedule_registration
  registering,        \* the register() coroutine inside `async with routes_lock`
  routes_lock,        \* TRUE iff routes_lock is held
  receiver_index,     \* index key -> Receiver (the closure of wrapped)
  receiver_parsed_routes,  \* normalized route -> parsed route (Flow in use)
  flow_in_use,        \* self._flow.in_use
  started,            \* the client finished its registration phase and dispatches
  lastReg,            \* outcome of the last keyed_receive(...)(fn): "", "ok", error name
  \* SummonerAgent state
  _key_mutex,         \* TRUE iff self._key_mutex is an AsyncKeyedMutex (not None)
  _seq_seen,          \* (route, key) -> last sequence seen
  \* AsyncKeyedMutex state
  _locks,             \* key -> id of the key's asyncio.Lock
  _refs,              \* key -> reference count
  _guard,             \* holder of the table guard (NoTask: free)
  lock_objs,          \* the live asyncio.Lock objects: id -> [locked, waiters]
  owner,              \* history: lock id -> the task that holds it (NoTask: none)
  \* the event loop and the tasks running wrapped(payload)
  running,            \* the task that has the event loop (NoTask: loop is idle)
  pc,                 \* task -> its position in wrapped / __aenter__ / __aexit__
  recv,               \* task -> the Receiver closure it runs (optional)
  payload,            \* task -> the argument of wrapped
  k,                  \* task -> local k of wrapped (optional)
  s,                  \* task -> local s of wrapped (optional)
  glock,              \* task -> _Guard._lock (optional lock id)
  fut,                \* task -> state of its waiter future in Lock.acquire
  must_cancel,        \* task -> a cancel() is pending delivery to the task
  exc,                \* task -> how the call leaves wrapped: result or exception
  invoked,            \* history: task -> raw_fn was called in this invocation
  abandoned,          \* history: key -> acquisitions left by CancelledError in __aenter__
  last_invoked,       \* history: key -> sequence of the last raw_fn call that carried one
  \* the log, kept by the specifications of a finite set of deliveries
  seen0,              \* log: task -> _seq_seen.get((route, k)) when wrapped computed k
  calls,              \* log: (key, sequence) -> number of raw_fn calls made with it
  failed,             \* log: the (key, sequence) pairs whose raw_fn call raised
  delivered           \* log: number of deliveries made

regVars == <<_dna_receivers, scheduled, registering, routes_lock, receiver_index,
             receiver_parsed_routes, flow_in_use, started, lastReg, _key_mutex>>
mutexVars == <<_locks, _refs, _guard, lock_objs, owner>>
taskVars == <<running, pc, recv, payload, k, s, glock, fut, must_cancel, exc, invoked>>
logVars == <<seen0, calls, failed, delivered>>
histVars == <<abandoned, last_invoked, logVars>>
vars == <<regVars, _seq_seen, mutexVars, taskVars, histVars>>

\* ----------------------------------------------------------------- helpers
Range(f) == { f[x] : x \in DOMAIN f }

\* dict with key x set to v / with key x deleted
DictSet(d, x, v) == [y \in DOMAIN d \cup {x} |-> IF y = x THEN v ELSE d[y]]
DictDel(d, x) == [y \in DOMAIN d \ {x} |-> d[y]]
\* dict.get(x): None when absent
DictGet(d, x) == IF x \in DOMAIN d THEN Some(d[x]) ELSE None

\* list.remove(x) on a sequence without duplicates
Remove(seq, x) == SelectSeq(seq, LAMBDA y : y # x)

\* ------------------------------------------------------------ registration
\* tuple_priority = (priority,) if isinstance(priority, int) else tuple(priority)
tuple_priority(priority) == priority.v

\* The extractors built once by keyed_receive: _key and _seq.  An extractor is
\* named by what it looks up: "const:None" (def _seq(_): return None) or the
\* payload field it reads.
BuildKey(key_by) == IF key_by = "str:id" THEN "field:id" ELSE "call:id"
BuildSeq(seq_by) ==
  IF seq_by = "None" THEN "const:None"
  ELSE IF seq_by = "str:seq" THEN "field:seq" ELSE "call:seq"

\* The DNA record appended by decorator (source, module, fn_name follow from fn).
DnaRecord(fn, route, priority) ==
  [fn |-> fn, route |-> route, priority |-> tuple_priority(priority)]

\* The closure of register(): the variables of keyed_receive and decorator it
\* captures (route, key_by, seq_by, priority) and the frozen extractors and handler.
Closure(in) ==
  [route |-> strip(in.route), key_by |-> in.key_by, seq_by |-> in.seq_by,
   key_fn |-> BuildKey(in.key_by), seq_fn |-> BuildSeq(in.seq_by),
   raw_fn |-> in.fn, priority |-> tuple_priority(in.priority)]

\* Mutant: the handler is not validated.
AcceptsAnyHandler(fn) == TRUE

\* decorator's validation of the handler: inspect.iscoroutinefunction(fn)
AcceptsHandler(fn) == iscoroutinefunction(fn)

\* keyed_receive(route, key_by, priority, seq_by)(fn): the decorator call and
\* its application, which Python runs back to back (@agent.keyed_receive(...)).
KeyedReceive(in) ==
  /\ ~started
  /\ Len(_dna_receivers) < MaxRegs
  /\ IF in.key_by = "None"
     THEN /\ lastReg' = "ValueError"
          /\ UNCHANGED <<_dna_receivers, scheduled>>
     ELSE IF ~AcceptsHandler(in.fn)
     THEN /\ lastReg' = "TypeError"
          /\ UNCHANGED <<_dna_receivers, scheduled>>
     ELSE /\ _dna_receivers' =
               Append(_dna_receivers, DnaRecord(in.fn, strip(in.route), in.priority))
          /\ scheduled' = Append(scheduled, Closure(in))
          /\ lastReg' = "ok"
  /\ UNCHANGED <<registering, routes_lock, receiver_index, receiver_parsed_routes,
                 flow_in_use, started, _key_mutex,
                 _seq_seen, mutexVars, taskVars, histVars>>

\* self._flow.parse_route(route) and str(parsed_route): the parsed form of a
\* route and its normalized text (a single-node route is its own normal form).
parse_route(route) == [nodes |-> <<route>>]
normalized_route(parsed) == parsed.nodes[1]

\* Mutant: register() writes the index without `async with self.routes_lock`.
RegisterBeginNoLock(i) ==
  /\ i \in 1..Len(scheduled)
  /\ registering = None
  /\ _key_mutex' = TRUE
  /\ registering' =
       Some([receiver |-> scheduled[i],
             parsed |-> IF flow_in_use THEN Some(parse_route(scheduled[i].route))
                        ELSE None])
  /\ scheduled' = [j \in 1..(Len(scheduled) - 1) |->
                     IF j < i THEN scheduled[j] ELSE scheduled[j + 1]]
  /\ UNCHANGED <<_dna_receivers, routes_lock, receiver_index, receiver_parsed_routes,
                 flow_in_use, started, lastReg, _seq_seen, mutexVars, taskVars, histVars>>

\* register(), up to and including the acquisition of routes_lock: the lazy
\* creation of the AsyncKeyedMutex, the construction of the Receiver and, with
\* Flow in use, the parsing of the route.
RegisterBegin(i) ==
  /\ i \in 1..Len(scheduled)
  /\ ~routes_lock
  /\ registering = None
  /\ _key_mutex' = TRUE
  /\ routes_lock' = TRUE
  /\ registering' =
       Some([receiver |-> scheduled[i],
             parsed |-> IF flow_in_use THEN Some(parse_route(scheduled[i].route))
                        ELSE None])
  /\ scheduled' = [j \in 1..(Len(scheduled) - 1) |->
                     IF j < i THEN scheduled[j] ELSE scheduled[j + 1]]
  /\ UNCHANGED <<_dna_receivers, receiver_index, receiver_parsed_routes, flow_in_use,
                 started, lastReg, _seq_seen, mutexVars, taskVars, histVars>>

\* register(), the body of `async with self.routes_lock` and its release: the
\* receiver enters the index under the normalized route (Flow) or the route.
RegisterInsert ==
  /\ registering # None
  /\ LET reg == registering[1]
     IN IF reg.parsed # None
        THEN /\ receiver_parsed_routes' =
                  DictSet(receiver_parsed_routes, normalized_route(reg.parsed[1]),
                          reg.parsed[1])
             /\ receiver_index' =
                  DictSet(receiver_index, normalized_route(reg.parsed[1]), reg.receiver)
        ELSE /\ receiver_index' = DictSet(receiver_index, reg.receiver.route, reg.receiver)
             /\ receiver_parsed_routes' = receiver_parsed_routes
  /\ routes_lock' = FALSE
  /\ registering' = None
  /\ UNCHANGED <<_dna_receivers, scheduled, flow_in_use, started, lastReg, _key_mutex,
                 _seq_seen, mutexVars, taskVars, histVars>>

\* The client leaves its registration phase once every scheduled register()
\* has run, and starts to dispatch payloads to the receivers of the index.
StartClient ==
  /\ ~started
  /\ scheduled = <<>>
  /\ registering = None
  /\ started' = TRUE
  /\ lastReg' = ""
  /\ UNCHANGED <<_dna_receivers, scheduled, registering, routes_lock, receiver_index,
                 receiver_parsed_routes, flow_in_use,
                 _key_mutex, _seq_seen, mutexVars, taskVars, histVars>>

\* ------------------------------------------------------------- extractors
\* Field read by an extractor.
FieldOf(x) == IF x \in {"field:id", "call:id"} THEN "id" ELSE "seq"

\* payload[name] on a dict payload: KeyError when the field is absent.
Lookup(p, name) ==
  IF name \in DOMAIN p THEN [raised |-> FALSE, val |-> p[name]]
  ELSE [raised |-> TRUE, val |-> None]

\* key_fn(payload): the key, or an exception.
KeyFn(key_fn, p) ==
  LET r == Lookup(p, FieldOf(key_fn))
  IN IF r.raised THEN r ELSE [raised |-> FALSE, val |-> Some(r.val)]

\* Mutant: the sequence field is read although seq_by is None.
SeqFnAlwaysReads(seq_fn, p) == Lookup(p, "seq")

\* Mutant: a missing sequence field reads as None (dict.get) instead of raising.
SeqFnLenient(seq_fn, p) ==
  IF seq_fn = "const:None" \/ "seq" \notin DOMAIN p THEN [raised |-> FALSE, val |-> None]
  ELSE [raised |-> FALSE, val |-> p["seq"]]

\* seq_fn(payload): None, an integer, or an exception.
SeqFn(seq_fn, p) ==
  IF seq_fn = "const:None" THEN [raised |-> FALSE, val |-> None]
  ELSE Lookup(p, FieldOf(seq_fn))

\* Mutant: the route is left out of the key.
LockKeyNoRoute(route, key) == <<"", key>>

\* The key handed to AsyncKeyedMutex.lock and to _seq_seen: (route, k).
LockKey(route, key) == <<route, key>>

\* Mutant: the comparison with the recorded sequence is missing.
IsStaleNever(sv, last) == FALSE

\* Mutant: an equal sequence passes (s < last).
IsStaleStrict(sv, last) == last # None /\ sv < last[1]

\* `last is not None and s <= last`
IsStale(sv, last) == last # None /\ sv <= last[1]

\* ------------------------------------------------------------ asyncio.Lock
\* asyncio.Lock(): a fresh object.  An object is named by the key it was made
\* for and a generation, the least one no live object of that key has.
Generations == 0..Cardinality(Tasks)
NewLockId(key) ==
  <<key, CHOOSE g \in Generations :
           /\ <<key, g>> \notin DOMAIN lock_objs
           /\ \A h \in Generations : h < g => <<key, h>> \in DOMAIN lock_objs>>

\* Mutant: acquire() does not look at the locked flag (a lock that lets its
\* holder, and anybody, in again).
CanAcquireIgnoresLocked(l, futs) ==
  \A i \in 1..Len(l.waiters) : futs[l.waiters[i]] = "cancelled"

\* Mutant: acquire() takes a free lock although a woken waiter is queued.
CanAcquireIgnoresWaiters(l, futs) == ~l.locked

\* Lock.acquire's test for taking the lock without suspending.
CanAcquire(l, futs) ==
  ~l.locked /\ \A i \in 1..Len(l.waiters) : futs[l.waiters[i]] = "cancelled"

\* Mutant: release() wakes nobody.
WakeUpNobody(waiters, futs) == futs

\* Lock._wake_up_first: set the result of the first waiter's future unless done.
WakeUpFirst(waiters, futs) ==
  IF waiters # <<>> /\ futs[Head(waiters)] = "pending"
  THEN [futs EXCEPT ![Head(waiters)] = "done"]
  ELSE futs

\* The objects something still refers to, once task t dropped its references.
LiveAfter(t, locks) ==
  Range(locks) \cup UNION { Range(glock[u]) : u \in Tasks \ {t} }

\* ----------------------------------------------------------------- wrapped
MyKey(t) == LockKey(recv[t][1].route, k[t][1])
MyLock(t) == glock[t][1]

\* Mutant: an exception of the handler leaves wrapped without running __aexit__.
LeaveBodyErrorSkips(outcome) ==
  IF outcome = "HandlerError" THEN "done" ELSE "aexit_release"

\* Mutant: the stale drop returns without running __aexit__.
LeaveBodyDropSkips(outcome) == IF outcome = "Dropped" THEN "done" ELSE "aexit_release"

\* How control leaves the body of `async with self._key_mutex.lock(...)`:
\* every way out (return, exception, cancellation) runs __aexit__.
LeaveBody(outcome) == "aexit_release"

\* The framework calls wrapped(payload) of a receiver of the index in a task,
\* which starts to run.
DeliverCore(t, r, p) ==
  /\ started
  /\ running = NoTask
  /\ pc[t] = "idle"
  /\ \A u \in Tasks : u < t => pc[u] # "idle"   \* a new task takes the first free slot
  /\ r \in Range(receiver_index)
  /\ running' = t
  /\ pc' = [pc EXCEPT ![t] = "key_fn"]
  /\ recv' = [recv EXCEPT ![t] = Some(r)]
  /\ payload' = [payload EXCEPT ![t] = p]
  /\ UNCHANGED <<k, s, glock, fut, must_cancel, exc, invoked>>
  /\ UNCHANGED <<regVars, _seq_seen, mutexVars, abandoned, last_invoked>>
Deliver(t, r, p) == DeliverCore(t, r, p) /\ UNCHANGED logVars

\* The same, as one of a finite set of deliveries.
DeliverFinite(t, r, p) ==
  /\ delivered < MaxDeliveries
  /\ DeliverCore(t, r, p)
  /\ delivered' = delivered + 1
  /\ UNCHANGED <<seen0, calls, failed>>

\* k = key_fn(payload); an exception leaves wrapped before any lock is touched.
KeyStepCore(t) ==
  /\ running = t
  /\ pc[t] = "key_fn"
  /\ LET r == KeyFn(recv[t][1].key_fn, payload[t])
     IN IF r.raised
        THEN /\ exc' = [exc EXCEPT ![t] = "ExtractionError"]
             /\ pc' = [pc EXCEPT ![t] = "done"]
             /\ k' = k
        ELSE /\ k' = [k EXCEPT ![t] = r.val]
             /\ pc' = [pc EXCEPT ![t] = "aenter_guard"]
             /\ exc' = exc
  /\ UNCHANGED <<running, recv, payload, s, glock, fut, must_cancel, invoked>>
  /\ UNCHANGED <<regVars, _seq_seen, mutexVars, abandoned, last_invoked>>
KeyStep(t) == KeyStepCore(t) /\ UNCHANGED logVars

\* The same, logging the sequence recorded for the key at this moment.
KeyStepLogged(t) ==
  /\ KeyStepCore(t)
  /\ seen0' = [seen0 EXCEPT
                 ![t] = IF k'[t] = None THEN None
                        ELSE DictGet(_seq_seen, LockKey(recv[t][1].route, k'[t][1]))]
  /\ UNCHANGED <<calls, failed, delivered>>

\* __aenter__: `async with mutex._guard` entered (the guard is free).
AEnterGuard(t) ==
  /\ running = t
  /\ pc[t] = "aenter_guard"
  /\ _guard = NoTask
  /\ _guard' = t
  /\ pc' = [pc EXCEPT ![t] = "aenter_table"]
  /\ UNCHANGED <<_locks, _refs, lock_objs, owner>>
  /\ UNCHANGED <<running, recv, payload, k, s, glock, fut, must_cancel, exc, invoked>>
  /\ UNCHANGED <<regVars, _seq_seen, histVars>>

\* Mutant: the increment is inside `if lock is None`, so only the creator of
\* an entry is counted.
AEnterTableCountsCreator(t) ==
  /\ running = t
  /\ pc[t] = "aenter_table"
  /\ LET key == MyKey(t)
         found == DictGet(_locks, key)
         id == IF found = None THEN NewLockId(key) ELSE found[1]
     IN /\ _locks' = IF found = None THEN DictSet(_locks, key, id) ELSE _locks
        /\ lock_objs' = IF found = None
                        THEN DictSet(lock_objs, id, [locked |-> FALSE, waiters |-> <<>>])
                        ELSE lock_objs
        /\ owner' = IF found = None THEN DictSet(owner, id, NoTask) ELSE owner
        /\ _refs' = IF found = None THEN DictSet(_refs, key, 1) ELSE _refs
        /\ glock' = [glock EXCEPT ![t] = Some(id)]
  /\ pc' = [pc EXCEPT ![t] = "aenter_unguard"]
  /\ UNCHANGED <<_guard, running, recv, payload, k, s, fut, must_cancel, exc, invoked>>
  /\ UNCHANGED <<regVars, _seq_seen, histVars>>

\* __aenter__: look the key up, create its lock and count when absent,
\* increment the count, keep the lock in the guard object.
AEnterTable(t) ==
  /\ running = t
  /\ pc[t] = "aenter_table"
  /\ LET key == MyKey(t)
         found == DictGet(_locks, key)
         id == IF found = None THEN NewLockId(key) ELSE found[1]
         refs0 == IF found = None THEN DictSet(_refs, key, 0) ELSE _refs
     IN /\ _locks' = IF found = None THEN DictSet(_locks, key, id) ELSE _locks
        /\ lock_objs' = IF found = None
                        THEN DictSet(lock_objs, id, [locked |-> FALSE, waiters |-> <<>>])
                        ELSE lock_objs
        /\ owner' = IF found = None THEN DictSet(owner, id, NoTask) ELSE owner
        /\ _refs' = [refs0 EXCEPT ![key] = @ + 1]
        /\ glock' = [glock EXCEPT ![t] = Some(id)]
  /\ pc' = [pc EXCEPT ![t] = "aenter_unguard"]
  /\ UNCHANGED <<_guard, running, recv, payload, k, s, fut, must_cancel, exc, invoked>>
  /\ UNCHANGED <<regVars, _seq_seen, histVars>>

\* Mutant: acquire() is awaited inside `async with mutex._guard`.
AEnterKeepsGuard(t) ==
  /\ running = t
  /\ pc[t] = "aenter_unguard"
  /\ pc' = [pc EXCEPT ![t] = "acquire"]
  /\ UNCHANGED <<_locks, _refs, _guard, lock_objs, owner>>
  /\ UNCHANGED <<running, recv, payload, k, s, glock, fut, must_cancel, exc, invoked>>
  /\ UNCHANGED <<regVars, _seq_seen, histVars>>

\* __aenter__: the table guard is released at the end of its `async with`.
AEnterUnguard(t) ==
  /\ running = t
  /\ pc[t] = "aenter_unguard"
  /\ _guard' = NoTask
  /\ pc' = [pc EXCEPT ![t] = "acquire"]
  /\ UNCHANGED <<_locks, _refs, lock_objs, owner>>
  /\ UNCHANGED <<running, recv, payload, k, s, glock, fut, must_cancel, exc, invoked>>
  /\ UNCHANGED <<regVars, _seq_seen, histVars>>

\* __aenter__: await self._lock.acquire().  The lock is taken at once when it
\* is free and nobody waits; otherwise the task queues a future and suspends.
Acquire(t) ==
  /\ running = t
  /\ pc[t] = "acquire"
  /\ LET o == MyLock(t)
     IN IF CanAcquire(lock_objs[o], fut)
        THEN /\ lock_objs' = [lock_objs EXCEPT ![o].locked = TRUE]
             /\ owner' = [owner EXCEPT ![o] = t]
             /\ pc' = [pc EXCEPT ![t] = "seq_fn"]
             /\ UNCHANGED <<fut, running>>
        ELSE /\ lock_objs' = [lock_objs EXCEPT ![o].waiters = Append(@, t)]
             /\ fut' = [fut EXCEPT ![t] = "pending"]
             /\ pc' = [pc EXCEPT ![t] = "wait"]
             /\ running' = NoTask
             /\ owner' = owner
  /\ UNCHANGED <<_locks, _refs, _guard>>
  /\ UNCHANGED <<recv, payload, k, s, glock, must_cancel, exc, invoked>>
  /\ UNCHANGED <<regVars, _seq_seen, histVars>>

\* Lock.acquire resumes with its future's result: it leaves the queue and
\* takes the lock; __aenter__ returns.
WakeResume(t) ==
  /\ running = NoTask
  /\ pc[t] = "wait"
  /\ fut[t] = "done"
  /\ ~must_cancel[t]
  /\ LET o == MyLock(t)
     IN /\ lock_objs' = [lock_objs EXCEPT ![o].waiters = Remove(@, t),
                                          ![o].locked = TRUE]
        /\ owner' = [owner EXCEPT ![o] = t]
  /\ fut' = [fut EXCEPT ![t] = "none"]
  /\ pc' = [pc EXCEPT ![t] = "seq_fn"]
  /\ running' = t
  /\ UNCHANGED <<_locks, _refs, _guard>>
  /\ UNCHANGED <<recv, payload, k, s, glock, must_cancel, exc, invoked>>
  /\ UNCHANGED <<regVars, _seq_seen, histVars>>

\* Acquisitions abandoned so far, and the waiters whose cancellation is under way.
RECURSIVE SumOver(_, _)
SumOver(f, S) == IF S = {} THEN 0
                 ELSE LET x == CHOOSE y \in S : TRUE IN f[x] + SumOver(f, S \ {x})
AbandonedTotal == SumOver(abandoned, DOMAIN abandoned)
CancelledWaiters ==
  { u \in Tasks : pc[u] \in {"wait", "re_wait"} /\ (fut[u] = "cancelled" \/ must_cancel[u]) }

\* The environment calls task.cancel() on a suspended task: a pending waiter
\* future is cancelled; otherwise the cancellation is delivered at resumption.
Cancel(t) ==
  /\ running = NoTask
  /\ pc[t] \in {"wait", "body_await", "re_wait"}
  /\ pc[t] \in {"wait", "re_wait"}
       => AbandonedTotal + Cardinality(CancelledWaiters) < MaxAbandoned
  /\ ~must_cancel[t]
  /\ fut[t] # "cancelled"
  /\ IF fut[t] = "pending"
     THEN fut' = [fut EXCEPT ![t] = "cancelled"] /\ must_cancel' = must_cancel
     ELSE must_cancel' = [must_cancel EXCEPT ![t] = TRUE] /\ fut' = fut
  /\ UNCHANGED histVars
  /\ UNCHANGED <<running, pc, recv, payload, k, s, glock, exc, invoked>>
  /\ UNCHANGED <<regVars, _seq_seen, mutexVars>>

\* Lock.acquire resumes with CancelledError: the future leaves the queue, the
\* next waiter is woken if the lock is free, and the error leaves __aenter__
\* (so __aexit__ does not run) and wrapped.
CancelResume(t) ==
  /\ running = NoTask
  /\ pc[t] = "wait"
  /\ fut[t] = "cancelled" \/ (fut[t] = "done" /\ must_cancel[t])
  /\ LET o == MyLock(t)
         rest == Remove(lock_objs[o].waiters, t)
         futs == [fut EXCEPT ![t] = "none"]
     IN /\ lock_objs' = [lock_objs EXCEPT ![o].waiters = rest]
        /\ fut' = IF lock_objs[o].locked THEN futs ELSE WakeUpFirst(rest, futs)
  /\ must_cancel' = [must_cancel EXCEPT ![t] = FALSE]
  /\ exc' = [exc EXCEPT ![t] = "CancelledError"]
  /\ pc' = [pc EXCEPT ![t] = "done"]
  /\ running' = t
  /\ abandoned' = [abandoned EXCEPT ![MyKey(t)] = @ + 1]
  /\ UNCHANGED <<last_invoked, logVars>>
  /\ UNCHANGED <<_locks, _refs, _guard, owner>>
  /\ UNCHANGED <<recv, payload, k, s, glock, invoked>>
  /\ UNCHANGED <<regVars, _seq_seen>>

\* s = seq_fn(payload), inside the critical section.
SeqStep(t) ==
  /\ running = t
  /\ pc[t] = "seq_fn"
  /\ LET r == SeqFn(recv[t][1].seq_fn, payload[t])
     IN IF r.raised
        THEN /\ exc' = [exc EXCEPT ![t] = "ExtractionError"]
             /\ pc' = [pc EXCEPT ![t] = LeaveBody("ExtractionError")]
             /\ s' = s
        ELSE /\ s' = [s EXCEPT ![t] = r.val]
             /\ pc' = [pc EXCEPT ![t] = "check"]
             /\ exc' = exc
  /\ UNCHANGED <<running, recv, payload, k, glock, fut, must_cancel, invoked>>
  /\ UNCHANGED <<regVars, _seq_seen, mutexVars, histVars>>

\* if s is not None: drop when stale (return None), else record s.
Check(t) ==
  /\ running = t
  /\ pc[t] = "check"
  /\ IF s[t] = None
     THEN /\ pc' = [pc EXCEPT ![t] = "call"]
          /\ UNCHANGED <<_seq_seen, exc>>
     ELSE LET last == DictGet(_seq_seen, MyKey(t))
          IN IF IsStale(s[t][1], last)
             THEN /\ exc' = [exc EXCEPT ![t] = "Dropped"]
                  /\ pc' = [pc EXCEPT ![t] = LeaveBody("Dropped")]
                  /\ _seq_seen' = _seq_seen
             ELSE /\ _seq_seen' = DictSet(_seq_seen, MyKey(t), s[t][1])
                  /\ pc' = [pc EXCEPT ![t] = "call"]
                  /\ exc' = exc
  /\ UNCHANGED <<running, recv, payload, k, s, glock, fut, must_cancel, invoked>>
  /\ UNCHANGED <<regVars, mutexVars, histVars>>

\* raw_fn(payload) is called: the user handler starts to run.
CallCore(t) ==
  /\ running = t
  /\ pc[t] = "call"
  /\ invoked' = [invoked EXCEPT ![t] = TRUE]
  /\ last_invoked' = IF s[t] = None THEN last_invoked
                     ELSE DictSet(last_invoked, MyKey(t), s[t][1])
  /\ payload' = [payload EXCEPT ![t] = EmptyDict]
  /\ pc' = [pc EXCEPT ![t] = "body"]
  /\ UNCHANGED abandoned
  /\ UNCHANGED <<running, recv, k, s, glock, fut, must_cancel, exc>>
  /\ UNCHANGED <<regVars, _seq_seen, mutexVars>>
Call(t) == CallCore(t) /\ UNCHANGED logVars

\* The calls of raw_fn logged for (key, sequence).
CallsOf(key, sv) == IF <<key, sv>> \in DOMAIN calls THEN calls[<<key, sv>>] ELSE 0

\* The same, logging the call.
CallLogged(t) ==
  /\ CallCore(t)
  /\ calls' = IF s[t] = None THEN calls
              ELSE DictSet(calls, <<MyKey(t), s[t][1]>>, CallsOf(MyKey(t), s[t][1]) + 1)
  /\ UNCHANGED <<seen0, failed, delivered>>

\* The handler body awaits something and suspends, holding the lock.
BodyAwait(t) ==
  /\ running = t
  /\ pc[t] = "body"
  /\ pc' = [pc EXCEPT ![t] = "body_await"]
  /\ running' = NoTask
  /\ UNCHANGED <<recv, payload, k, s, glock, fut, must_cancel, exc, invoked>>
  /\ UNCHANGED <<regVars, _seq_seen, mutexVars, histVars>>

\* The handler body resumes after its await.
BodyResume(t) ==
  /\ running = NoTask
  /\ pc[t] = "body_await"
  /\ ~must_cancel[t]
  /\ pc' = [pc EXCEPT ![t] = "body"]
  /\ running' = t
  /\ UNCHANGED <<recv, payload, k, s, glock, fut, must_cancel, exc, invoked>>
  /\ UNCHANGED <<regVars, _seq_seen, mutexVars, histVars>>

\* The handler body resumes with CancelledError, which leaves the handler.
BodyCancelledCore(t) ==
  /\ running = NoTask
  /\ pc[t] = "body_await"
  /\ must_cancel[t]
  /\ must_cancel' = [must_cancel EXCEPT ![t] = FALSE]
  /\ exc' = [exc EXCEPT ![t] = "CancelledError"]
  /\ pc' = [pc EXCEPT ![t] = LeaveBody("CancelledError")]
  /\ running' = t
  /\ UNCHANGED <<recv, payload, k, s, glock, fut, invoked>>
  /\ UNCHANGED <<regVars, _seq_seen, mutexVars, abandoned, last_invoked>>
BodyCancelled(t) == BodyCancelledCore(t) /\ UNCHANGED logVars

\* The log of failed calls once the call of task t ended with an exception.
FailedWith(t) == IF s[t] = None THEN failed ELSE failed \cup {<<MyKey(t), s[t][1]>>}

\* The same, logging the failed call.
BodyCancelledLogged(t) ==
  /\ BodyCancelledCore(t)
  /\ failed' = FailedWith(t)
  /\ UNCHANGED <<seen0, calls, delivered>>

\* The handler returns its result, or raises.
BodyEndCore(t, outcome) ==
  /\ running = t
  /\ pc[t] = "body"
  /\ exc' = [exc EXCEPT ![t] = outcome]
  /\ pc' = [pc EXCEPT ![t] = LeaveBody(outcome)]
  /\ UNCHANGED <<running, recv, payload, k, s, glock, fut, must_cancel, invoked>>
  /\ UNCHANGED <<regVars, _seq_seen, mutexVars, abandoned, last_invoked>>
BodyEnd(t, outcome) == BodyEndCore(t, outcome) /\ UNCHANGED logVars

\* The same, logging a failed call.
BodyEndLogged(t, outcome) ==
  /\ BodyEndCore(t, outcome)
  /\ failed' = IF outcome = "HandlerError" THEN FailedWith(t) ELSE failed
  /\ UNCHANGED <<seen0, calls, delivered>>

\* __aexit__: self._lock.release() (RuntimeError if the lock is not held),
\* which wakes the first waiter.
AExitRelease(t) ==
  /\ running = t
  /\ pc[t] = "aexit_release"
  /\ LET o == MyLock(t)
     IN IF lock_objs[o].locked
        THEN /\ lock_objs' = [lock_objs EXCEPT ![o].locked = FALSE]
             /\ owner' = [owner EXCEPT ![o] = NoTask]
             /\ fut' = WakeUpFirst(lock_objs[o].waiters, fut)
             /\ pc' = [pc EXCEPT ![t] = "aexit_guard"]
             /\ exc' = exc
        ELSE /\ exc' = [exc EXCEPT ![t] = "RuntimeError"]
             /\ pc' = [pc EXCEPT ![t] = "done"]
             /\ UNCHANGED <<lock_objs, owner, fut>>
  /\ UNCHANGED <<_locks, _refs, _guard>>
  /\ UNCHANGED <<running, recv, payload, k, s, glock, must_cancel, invoked>>
  /\ UNCHANGED <<regVars, _seq_seen, histVars>>

\* Mutant: __aexit__ updates the table without `async with mutex._guard`.
AExitSkipsGuard(t) ==
  /\ running = t
  /\ pc[t] = "aexit_guard"
  /\ pc' = [pc EXCEPT ![t] = "aexit_table"]
  /\ UNCHANGED <<_locks, _refs, _guard, lock_objs, owner>>
  /\ UNCHANGED <<running, recv, payload, k, s, glock, fut, must_cancel, exc, invoked>>
  /\ UNCHANGED <<regVars, _seq_seen, histVars>>

\* __aexit__: `async with mutex._guard` entered (the guard is free).
AExitGuard(t) ==
  /\ running = t
  /\ pc[t] = "aexit_guard"
  /\ _guard = NoTask
  /\ _guard' = t
  /\ pc' = [pc EXCEPT ![t] = "aexit_table"]
  /\ UNCHANGED <<_locks, _refs, lock_objs, owner>>
  /\ UNCHANGED <<running, recv, payload, k, s, glock, fut, must_cancel, exc, invoked>>
  /\ UNCHANGED <<regVars, _seq_seen, histVars>>

\* Mutant: the entry is never deleted.
EvictNever(count) == count < 0

\* Mutant: the entry is deleted while one reference is left.
EvictEarly(count) == count <= 1

\* Mutant: the entry is deleted at every exit, whatever the count.
EvictAlways(count) == TRUE

\* Whether __aexit__ deletes the key's entry after the decrement.
Evict(count) == count = 0

\* __aexit__: decrement the count and delete the entry when it reaches zero.
AExitTable(t) ==
  /\ running = t
  /\ pc[t] = "aexit_table"
  /\ LET key == MyKey(t)
     IN IF key \in DOMAIN _refs
        THEN /\ IF Evict(_refs[key] - 1)
                THEN /\ _locks' = DictDel(_locks, key)
                     /\ _refs' = DictDel(_refs, key)
                ELSE /\ _refs' = [_refs EXCEPT ![key] = @ - 1]
                     /\ _locks' = _locks
             /\ exc' = exc
        ELSE /\ exc' = [exc EXCEPT ![t] = "KeyError"]
             /\ UNCHANGED <<_locks, _refs>>
  /\ pc' = [pc EXCEPT ![t] = "aexit_unguard"]
  /\ UNCHANGED <<_guard, lock_objs, owner>>
  /\ UNCHANGED <<running, recv, payload, k, s, glock, fut, must_cancel, invoked>>
  /\ UNCHANGED <<regVars, _seq_seen, histVars>>

\* __aexit__: the table guard is released; __aexit__ returns None, so the
\* result or the exception of the body leaves wrapped.
AExitUnguard(t) ==
  /\ running = t
  /\ pc[t] = "aexit_unguard"
  /\ _guard' = NoTask
  /\ pc' = [pc EXCEPT ![t] = "done"]
  /\ UNCHANGED <<_locks, _refs, lock_objs, owner>>
  /\ UNCHANGED <<running, recv, payload, k, s, glock, fut, must_cancel, exc, invoked>>
  /\ UNCHANGED <<regVars, _seq_seen, histVars>>

\* wrapped has ended: its result or exception is the caller's, the task's
\* frame and its guard object are dropped, the event loop is free again.
ReturnCore(t) ==
  /\ running = t
  /\ pc[t] = "done"
  /\ running' = NoTask
  /\ pc' = [pc EXCEPT ![t] = "idle"]
  /\ recv' = [recv EXCEPT ![t] = None]
  /\ payload' = [payload EXCEPT ![t] = EmptyDict]
  /\ k' = [k EXCEPT ![t] = None]
  /\ s' = [s EXCEPT ![t] = None]
  /\ glock' = [glock EXCEPT ![t] = None]
  /\ exc' = [exc EXCEPT ![t] = ""]
  /\ invoked' = [invoked EXCEPT ![t] = FALSE]
  /\ lock_objs' = [o \in DOMAIN lock_objs \cap LiveAfter(t, _locks) |-> lock_objs[o]]
  /\ owner' = [o \in DOMAIN owner \cap LiveAfter(t, _locks) |-> owner[o]]
  /\ UNCHANGED <<_locks, _refs, _guard, fut, must_cancel>>
  /\ UNCHANGED <<regVars, _seq_seen, abandoned, last_invoked>>
Return(t) == ReturnCore(t) /\ UNCHANGED logVars

\* The same, dropping the task's log entry.
ReturnLogged(t) ==
  /\ ReturnCore(t)
  /\ seen0' = [seen0 EXCEPT ![t] = None]
  /\ UNCHANGED <<calls, failed, delivered>>

\* ------------------------------------------------- re-entrant acquisition
\* The _Guard objects of a task are a stack: glock[t][1] belongs to wrapped's
\* `async with`, a second element to an `async with mutex.lock(...)` that the
\* handler body opens on the key it already holds.
InnerLock(t) == glock[t][Len(glock[t])]

\* The handler body enters `async with self._key_mutex.lock((route, k))` for
\* its own key: __aenter__ of a second _Guard takes the table guard.
ReEnterGuard(t) ==
  /\ running = t
  /\ pc[t] = "body"
  /\ Len(glock[t]) = 1
  /\ _guard = NoTask
  /\ _guard' = t
  /\ pc' = [pc EXCEPT ![t] = "re_table"]
  /\ UNCHANGED <<_locks, _refs, lock_objs, owner>>
  /\ UNCHANGED <<running, recv, payload, k, s, glock, fut, must_cancel, exc, invoked>>
  /\ UNCHANGED <<regVars, _seq_seen, histVars>>

\* The second __aenter__: lookup (create when absent), increment, keep the lock.
ReEnterTable(t) ==
  /\ running = t
  /\ pc[t] = "re_table"
  /\ LET key == MyKey(t)
         found == DictGet(_locks, key)
         id == IF found = None THEN NewLockId(key) ELSE found[1]
         refs0 == IF found = None THEN DictSet(_refs, key, 0) ELSE _refs
     IN /\ _locks' = IF found = None THEN DictSet(_locks, key, id) ELSE _locks
        /\ lock_objs' = IF found = None
                        THEN DictSet(lock_objs, id, [locked |-> FALSE, waiters |-> <<>>])
                        ELSE lock_objs
        /\ owner' = IF found = None THEN DictSet(owner, id, NoTask) ELSE owner
        /\ _refs' = [refs0 EXCEPT ![key] = @ + 1]
        /\ glock' = [glock EXCEPT ![t] = Append(@, id)]
  /\ pc' = [pc EXCEPT ![t] = "re_unguard"]
  /\ UNCHANGED <<_guard, running, recv, payload, k, s, fut, must_cancel, exc, invoked>>
  /\ UNCHANGED <<regVars, _seq_seen, histVars>>

\* The second __aenter__: the table guard is released.
ReEnterUnguard(t) ==
  /\ running = t
  /\ pc[t] = "re_unguard"
  /\ _guard' = NoTask
  /\ pc' = [pc EXCEPT ![t] = "re_acquire"]
  /\ UNCHANGED <<_locks, _refs, lock_objs, owner>>
  /\ UNCHANGED <<running, recv, payload, k, s, glock, fut, must_cancel, exc, invoked>>
  /\ UNCHANGED <<regVars, _seq_seen, histVars>>

\* The second __aenter__: await self._lock.acquire().  asyncio.Lock does not
\* know its owner: the test is the one every task meets.  "re_body" is the
\* nested block of the handler, entered when acquire() returns.
ReAcquire(t) ==
  /\ running = t
  /\ pc[t] = "re_acquire"
  /\ LET o == InnerLock(t)
     IN IF CanAcquire(lock_objs[o], fut)
        THEN /\ lock_objs' = [lock_objs EXCEPT ![o].locked = TRUE]
             /\ owner' = [owner EXCEPT ![o] = t]
             /\ pc' = [pc EXCEPT ![t] = "re_body"]
             /\ UNCHANGED <<fut, running>>
        ELSE /\ lock_objs' = [lock_objs EXCEPT ![o].waiters = Append(@, t)]
             /\ fut' = [fut EXCEPT ![t] = "pending"]
             /\ pc' = [pc EXCEPT ![t] = "re_wait"]
             /\ running' = NoTask
             /\ owner' = owner
  /\ UNCHANGED <<_locks, _refs, _guard>>
  /\ UNCHANGED <<recv, payload, k, s, glock, must_cancel, exc, invoked>>
  /\ UNCHANGED <<regVars, _seq_seen, histVars>>

\* The second acquire() resumes with CancelledError: the future leaves the
\* queue, the error leaves the second __aenter__ (whose __aexit__ does not run)
\* and the handler body, and wrapped's `async with` runs its __aexit__.
ReCancelResume(t) ==
  /\ running = NoTask
  /\ pc[t] = "re_wait"
  /\ fut[t] = "cancelled" \/ (fut[t] = "done" /\ must_cancel[t])
  /\ LET o == InnerLock(t)
         rest == Remove(lock_objs[o].waiters, t)
         futs == [fut EXCEPT ![t] = "none"]
     IN /\ lock_objs' = [lock_objs EXCEPT ![o].waiters = rest]
        /\ fut' = IF lock_objs[o].locked THEN futs ELSE WakeUpFirst(rest, futs)
  /\ must_cancel' = [must_cancel EXCEPT ![t] = FALSE]
  /\ glock' = [glock EXCEPT ![t] = SubSeq(@, 1, Len(@) - 1)]
  /\ exc' = [exc EXCEPT ![t] = "CancelledError"]
  /\ pc' = [pc EXCEPT ![t] = LeaveBody("CancelledError")]
  /\ running' = t
  /\ abandoned' = [abandoned EXCEPT ![MyKey(t)] = @ + 1]
  /\ UNCHANGED <<last_invoked, logVars>>
  /\ UNCHANGED <<_locks, _refs, _guard, owner>>
  /\ UNCHANGED <<recv, payload, k, s, invoked>>
  /\ UNCHANGED <<regVars, _seq_seen>>

\* ----------------------------------------------------------- specification
\* SummonerAgent.__init__: no mutex yet, nothing seen; no task is running.
InitAgent ==
  /\ _seq_seen = EmptyDict
  /\ _locks = EmptyDict
  /\ _refs = EmptyDict
  /\ _guard = NoTask
  /\ lock_objs = EmptyDict
  /\ owner = EmptyDict
  /\ running = NoTask
  /\ pc = [t \in Tasks |-> "idle"]
  /\ recv = [t \in Tasks |-> None]
  /\ payload = [t \in Tasks |-> EmptyDict]
  /\ k = [t \in Tasks |-> None]
  /\ s = [t \in Tasks |-> None]
  /\ glock = [t \in Tasks |-> None]
  /\ fut = [t \in Tasks |-> "none"]
  /\ must_cancel = [t \in Tasks |-> FALSE]
  /\ exc = [t \in Tasks |-> ""]
  /\ invoked = [t \in Tasks |-> FALSE]
  /\ abandoned = [key \in LockKeys |-> 0]
  /\ last_invoked = EmptyDict
  /\ seen0 = [t \in Tasks |-> None]
  /\ calls = EmptyDict
  /\ failed = {}
  /\ delivered = 0

\* The agent before any registration.
InitReg ==
  /\ _dna_receivers = <<>>
  /\ scheduled = <<>>
  /\ registering = None
  /\ routes_lock = FALSE
  /\ receiver_index = EmptyDict
  /\ receiver_parsed_routes = EmptyDict
  /\ flow_in_use \in BOOLEAN
  /\ started = FALSE
  /\ lastReg = ""
  /\ _key_mutex = FALSE
  /\ InitAgent

\* The registration phase: the decorators are applied, the client runs the
\* scheduled register() coroutines and then starts.
NextReg ==
  \/ \E in \in RegInputs : KeyedReceive(in)
  \/ \E i \in 1..MaxRegs : RegisterBegin(i)
  \/ RegisterInsert
  \/ StartClient

SpecReg == InitReg /\ [][NextReg]_vars

\* The two receivers the program registers: on_account_update with replay
\* protection, on_move without.
AccountInput == CHOOSE in \in RegInputs : in.fn = "on_account_update"
MoveInput == CHOOSE in \in RegInputs : in.fn = "on_move" /\ in.seq_by = "None"

\* The started client: both registrations were made and every register() ran
\* (a state SpecReg reaches, see StartedClient).
Init ==
  /\ _dna_receivers =
       << DnaRecord(AccountInput.fn, strip(AccountInput.route), AccountInput.priority),
          DnaRecord(MoveInput.fn, strip(MoveInput.route), MoveInput.priority) >>
  /\ scheduled = <<>>
  /\ registering = None
  /\ routes_lock = FALSE
  /\ receiver_index =
       [r \in {strip(AccountInput.route), strip(MoveInput.route)} |->
          IF r = strip(AccountInput.route) THEN Closure(AccountInput)
          ELSE Closure(MoveInput)]
  /\ receiver_parsed_routes = EmptyDict
  /\ flow_in_use = FALSE
  /\ started = TRUE
  /\ lastReg = ""
  /\ _key_mutex = TRUE
  /\ InitAgent

\* The dispatch phase: deliveries run wrapped in concurrent tasks.
Next ==
  \E t \in Tasks :
       \/ \E r \in Range(receiver_index) : \E p \in PayloadsFor(r.route) : Deliver(t, r, p)
       \/ KeyStep(t)
       \/ AEnterGuard(t)
       \/ AEnterTable(t)
       \/ AEnterUnguard(t)
       \/ Acquire(t)
       \/ WakeResume(t)
       \/ Cancel(t)
       \/ CancelResume(t)
       \/ SeqStep(t)
       \/ Check(t)
       \/ Call(t)
       \/ BodyAwait(t)
       \/ BodyResume(t)
       \/ BodyCancelled(t)
       \/ \E outcome \in {"Returned", "HandlerError"} : BodyEnd(t, outcome)
       \/ AExitRelease(t)
       \/ AExitGuard(t)
       \/ AExitTable(t)
       \/ AExitUnguard(t)
       \/ Return(t)

Spec == Init /\ [][Next]_vars

\* The dispatch phase with handlers that break the caller obligation and open
\* the key they hold a second time.
NextReentry ==
  \/ Next
  \/ \E t \in Tasks :
       \/ ReEnterGuard(t)
       \/ ReEnterTable(t)
       \/ ReEnterUnguard(t)
       \/ ReAcquire(t)
       \/ ReCancelResume(t)

SpecReentry == Init /\ [][NextReentry]_vars

\* A finite set of deliveries, each logged: at most MaxDeliveries calls of
\* wrapped are made, two of them at a time.
NextFinite ==
  \E t \in Tasks :
       \/ \E r \in Range(receiver_index) :
            \E p \in PayloadsFor(r.route) : DeliverFinite(t, r, p)
       \/ KeyStepLogged(t)
       \/ AEnterGuard(t)
       \/ AEnterTable(t)
       \/ AEnterUnguard(t)
       \/ Acquire(t)
       \/ WakeResume(t)
       \/ Cancel(t)
       \/ CancelResume(t)
       \/ SeqStep(t)
       \/ Check(t)
       \/ CallLogged(t)
       \/ BodyAwait(t)
       \/ BodyResume(t)
       \/ BodyCancelledLogged(t)
       \/ \E outcome \in {"Returned", "HandlerError"} : BodyEndLogged(t, outcome)
       \/ AExitRelease(t)
       \/ AExitGuard(t)
       \/ AExitTable(t)
       \/ AExitUnguard(t)
       \/ ReturnLogged(t)

SpecFinite == Init /\ [][NextFinite]_vars

\* A finite set of deliveries that nobody cancels, under the scheduling of the
\* event loop.
NextFair ==
  \E t \in Tasks :
       \/ \E r \in Range(receiver_index) :
            \E p \in PayloadsFor(r.route) : DeliverFinite(t, r, p)
       \/ KeyStep(t)
       \/ AEnterGuard(t)
       \/ AEnterTable(t)
       \/ AEnterUnguard(t)
       \/ Acquire(t)
       \/ WakeResume(t)
       \/ SeqStep(t)
       \/ Check(t)
       \/ Call(t)
       \/ BodyAwait(t)
       \/ BodyResume(t)
       \/ \E outcome \in {"Returned", "HandlerError"} : BodyEnd(t, outcome)
       \/ AExitRelease(t)
       \/ AExitGuard(t)
       \/ AExitTable(t)
       \/ AExitUnguard(t)
       \/ Return(t)

\* A step of task t that the event loop makes once the task can run: the next
\* statement of the running task, or the resumption of a task whose await
\* completed (the loop runs its ready callbacks, so a task that stays ready is
\* run).
TaskStep(t) ==
  \/ KeyStep(t) \/ AEnterGuard(t) \/ AEnterTable(t) \/ AEnterUnguard(t)
  \/ Acquire(t) \/ WakeResume(t) \/ SeqStep(t) \/ Check(t) \/ Call(t)
  \/ BodyResume(t) \/ AExitRelease(t) \/ AExitGuard(t) \/ AExitTable(t)
  \/ AExitUnguard(t) \/ Return(t)

\* The handler body of task t ends (every handler terminates).
BodyTerminates(t) == \E outcome \in {"Returned", "HandlerError"} : BodyEnd(t, outcome)

Fairness ==
  \A t \in Tasks : WF_vars(TaskStep(t)) /\ SF_vars(BodyTerminates(t))

SpecFair == Init /\ [][NextFair]_vars /\ Fairness

\* SpecReg reaches the initial state of Spec.
StartedClient == ~Init

TypeOK ==
  /\ running \in Tasks \cup {NoTask}
  /\ _guard \in Tasks \cup {NoTask}
  /\ DOMAIN _locks \subseteq LockKeys
  /\ DOMAIN lock_objs = DOMAIN owner

\* ================================================================== claims
\* The (route, key) pair of task t's delivery, once key_fn returned.
HasKey(t) == recv[t] # None /\ k[t] # None
KeyOf(t) == <<recv[t][1].route, k[t][1]>>

\* Task t is inside the critical section: __aenter__ has returned and
\* __aexit__ has not yet released the key's lock.
CsPcs == {"seq_fn", "check", "call", "body", "body_await", "aexit_release"}
InCS(t) == pc[t] \in CsPcs

\* Task t has incremented the key's count and not yet decremented it.
CountedPcs == {"aenter_unguard", "acquire", "wait"} \cup CsPcs \cup {"aexit_guard", "aexit_table"}
Holders(key) == { t \in Tasks : HasKey(t) /\ KeyOf(t) = key /\ pc[t] \in CountedPcs }
RefCount(key) == IF key \in DOMAIN _refs THEN _refs[key] ELSE 0

\* After the release step of __aexit__.
ReleasedPcs == {"aexit_guard", "aexit_table", "aexit_unguard", "done"}

\* The count of every key is the number of tasks that hold a unit of it plus
\* the units abandoned by cancelled waits.
Accounted(key) == RefCount(key) = Cardinality(Holders(key)) + abandoned[key]

\* C1: mutual exclusion per key -- no two tasks are inside the critical
\* section of the same (route, key) at the same time, whatever the
\* interleaving (evictions and re-creations of the key's entry included).
MutualExclusion ==
  \A t, u \in Tasks :
    (t # u /\ InCS(t) /\ InCS(u)) => KeyOf(t) # KeyOf(u)

\* C1 witness: one task is suspended in the handler body of a key while
\* another one waits for the same key.
W_Contended ==
  \E t, u \in Tasks :
    /\ t # u /\ pc[t] = "body_await" /\ pc[u] = "wait"
    /\ KeyOf(t) = KeyOf(u)

\* C2: distinct (route, key) pairs are independent -- tasks of different pairs
\* never share a lock object, a task waits only behind a task of its own pair,
\* and a step changes the sequence-table entry of the stepping task's pair only.
WaitsBehindOwnKey(t) ==
  LET o == glock[t][1]
      w == lock_objs[o].waiters
  IN \/ owner[o] # NoTask /\ HasKey(owner[o]) /\ KeyOf(owner[o]) = KeyOf(t)
     \/ \E i, j \in 1..Len(w) :
          /\ i < j /\ w[j] = t /\ fut[w[i]] \in {"done", "cancelled"}
          /\ KeyOf(w[i]) = KeyOf(t)
KeysIndependent ==
  /\ \A t, u \in Tasks :
       (t # u /\ glock[t] # None /\ glock[u] # None /\ KeyOf(t) # KeyOf(u))
         => glock[t] # glock[u]
  /\ \A t \in Tasks : (pc[t] = "wait" /\ fut[t] = "pending") => WaitsBehindOwnKey(t)
SeqWriteOwnEntry ==
  \A key \in LockKeys :
    DictGet(_seq_seen', key) # DictGet(_seq_seen, key)
      => running # NoTask /\ HasKey(running) /\ KeyOf(running) = key
Independence == []KeysIndependent /\ [][SeqWriteOwnEntry]_vars

\* C2 witness: the same key value under two routes, both tasks suspended in
\* their handler bodies at the same time.
W_BothInside ==
  \E t, u \in Tasks :
    /\ pc[t] = "body_await" /\ pc[u] = "body_await"
    /\ k[t] = k[u] /\ recv[t][1].route # recv[u][1].route

\* C3: replay acceptance -- with a sequence s, the handler is called iff no
\* sequence is recorded for the pair or s is greater than the recorded one, s is
\* then the recorded value, and the sequences the handler is called with
\* increase strictly per pair.
ReplayRule ==
  \A t \in Tasks :
    /\ (pc[t] = "call" /\ s[t] # None) =>
         /\ DictGet(_seq_seen, KeyOf(t)) = s[t]
         /\ KeyOf(t) \in DOMAIN last_invoked => last_invoked[KeyOf(t)] < s[t][1]
    /\ (exc[t] = "Dropped" /\ pc[t] = "aexit_release") =>
         /\ s[t] # None
         /\ KeyOf(t) \in DOMAIN _seq_seen
         /\ s[t][1] <= _seq_seen[KeyOf(t)]
         /\ ~invoked[t]

\* C3 witness: a pair whose handler ran for sequence 1 is about to run it for 2.
W_SecondAccepted ==
  \E t \in Tasks :
    /\ pc[t] = "call" /\ s[t] = Some(2)
    /\ KeyOf(t) \in DOMAIN last_invoked /\ last_invoked[KeyOf(t)] = 1

\* C4: a stale drop is a silent no-op -- the call returns None (no exception),
\* the handler is not called, the sequence table keeps exactly the sequences
\* the handler was called with, and the lock is released and the count given
\* back through __aexit__ as on a normal return.
StaleDropNoOp ==
  \A t \in Tasks :
    /\ exc[t] = "Dropped" =>
         /\ ~invoked[t]
         /\ _seq_seen = last_invoked
         /\ pc[t] \in {"aexit_release"} \cup ReleasedPcs
         /\ pc[t] \in ReleasedPcs => owner[glock[t][1]] # t
         /\ pc[t] = "done" => Accounted(KeyOf(t))
    /\ (pc[t] = "done" /\ s[t] # None /\ ~invoked[t]) => exc[t] = "Dropped"

\* C4 witness: a call that dropped a stale delivery has ended.
W_Dropped == \E t \in Tasks : pc[t] = "done" /\ exc[t] = "Dropped"

\* C5: replay protection disabled -- when seq_by is None, or seq_fn returned
\* None, the delivery is never dropped, the critical section is left only after
\* the handler was called, and the sequence table is not changed by the call.
SeqByNone(t) == recv[t] # None /\ recv[t][1].seq_by = "None"
SeqIsNone(t) ==
  /\ recv[t] # None /\ s[t] = None
  /\ pc[t] \in {"check", "call", "body", "body_await"}
       \/ (pc[t] \in {"aexit_release"} \cup ReleasedPcs /\ invoked[t])
NoReplayCheck ==
  \A t \in Tasks :
    /\ (SeqByNone(t) \/ SeqIsNone(t)) => exc[t] # "Dropped"
    /\ (SeqByNone(t) /\ pc[t] \in {"aexit_release"} \cup ReleasedPcs /\ glock[t] # None
          /\ ~(pc[t] = "done" /\ exc[t] = "CancelledError" /\ ~invoked[t]))
         => invoked[t] /\ s[t] = None
    /\ (SeqByNone(t) /\ HasKey(t)) => KeyOf(t) \notin DOMAIN _seq_seen
NoSeqWrite ==
  \A t \in Tasks :
    ((running = t \/ running' = t) /\ (SeqByNone(t) \/ SeqByNone(t)' \/ SeqIsNone(t)))
      => _seq_seen' = _seq_seen
ReplayDisabled == []NoReplayCheck /\ [][NoSeqWrite]_vars

\* C5 witness: two deliveries of one key to the receiver without seq_by: the
\* handler of one has ended while the other waits for the key.
W_BothRun ==
  \E t, u \in Tasks :
    /\ t # u /\ pc[t] = "aexit_release" /\ invoked[t] /\ pc[u] = "wait"
    /\ SeqByNone(t) /\ SeqByNone(u) /\ KeyOf(t) = KeyOf(u)

\* C6: no leaked lock entries -- a key that no task holds a unit of, and no
\* acquisition of which was abandoned, is in neither _locks nor _refs; with all
\* tasks finished the table is empty again.
NoLeakedEntries ==
  \A key \in LockKeys :
    (Holders(key) = {} /\ abandoned[key] = 0)
      => key \notin DOMAIN _locks /\ key \notin DOMAIN _refs

\* C6 witness: after a handler ran and every task ended, the table is empty.
W_TableEmptyAgain ==
  /\ \A t \in Tasks : pc[t] = "idle"
  /\ AbandonedTotal = 0
  /\ last_invoked # EmptyDict
  /\ _locks = EmptyDict /\ _refs = EmptyDict

\* C7: a wait abandoned by cancellation gives its reference back -- once no
\* task holds a unit of a key, the key is absent from the lock table.
CancelledWaitReverted ==
  \A key \in LockKeys : Holders(key) = {} => key \notin DOMAIN _locks

\* C8: release on every exit path -- __aexit__ releases the key's lock first,
\* decrements the count under the table guard, and a call that entered the
\* critical section ends (result or exception) with the lock released, its
\* unit given back and a waiter of the key able to go on.
EnteredCS(t) ==
  pc[t] = "done" /\ glock[t] # None /\ ~(exc[t] = "CancelledError" /\ ~invoked[t])
WaiterCanGoOn(o) ==
  (~lock_objs[o].locked /\ lock_objs[o].waiters # <<>>)
    => \E i \in 1..Len(lock_objs[o].waiters) :
         fut[lock_objs[o].waiters[i]] \in {"done", "cancelled"}
ReleaseOnEveryExit ==
  \A t \in Tasks :
    /\ (pc[t] \in {"aexit_guard", "aexit_table", "aexit_unguard"} \/ EnteredCS(t)) =>
         /\ owner[glock[t][1]] # t
         /\ WaiterCanGoOn(glock[t][1])
    /\ pc[t] = "aexit_table" => _guard = t /\ RefCount(KeyOf(t)) >= 1
    /\ EnteredCS(t) =>
         /\ Accounted(KeyOf(t))
         /\ RefCount(KeyOf(t)) = 0 => KeyOf(t) \notin DOMAIN _locks
         /\ exc[t] \in {"Returned", "Dropped", "HandlerError", "ExtractionError",
                        "CancelledError"}

\* C8 witness: a call ends with the handler's exception while a waiter of the
\* same key has been woken.
W_ErrorReleased ==
  \E t, u \in Tasks :
    /\ pc[t] = "done" /\ exc[t] = "HandlerError"
    /\ pc[u] = "wait" /\ fut[u] = "done" /\ KeyOf(u) = KeyOf(t)

\* C9: configuration errors leave no trace -- a keyed_receive that raises
\* ValueError (key_by None) or TypeError (handler not async) changes neither the
\* DNA log, nor the scheduled registrations, nor the receiver index; nothing the
\* agent holds comes from such a call.
ValidEntry(key_by, fn) == key_by # "None" /\ fn # "sync_handler"
NoInvalidEntry ==
  /\ \A i \in 1..Len(_dna_receivers) : _dna_receivers[i].fn # "sync_handler"
  /\ \A i \in 1..Len(scheduled) : ValidEntry(scheduled[i].key_by, scheduled[i].raw_fn)
  /\ registering # None =>
       ValidEntry(registering[1].receiver.key_by, registering[1].receiver.raw_fn)
  /\ \A r \in Range(receiver_index) : ValidEntry(r.key_by, r.raw_fn)
  /\ \A t \in Tasks : recv[t] # None => ValidEntry(recv[t][1].key_by, recv[t][1].raw_fn)
ErrorChangesNothing ==
  (lastReg' \in {"ValueError", "TypeError"} /\ lastReg' # lastReg)
    => UNCHANGED <<_dna_receivers, scheduled, registering, routes_lock, receiver_index,
                   receiver_parsed_routes, _key_mutex>>
ConfigErrorsNoEffect == []NoInvalidEntry /\ [][ErrorChangesNothing]_vars

\* C9 witness: a registration was made, and a later one raised ValueError.
W_ConfigError == lastReg = "ValueError" /\ Len(_dna_receivers) = 1

\* C10: extraction failures propagate and leave the state clean -- a failing
\* key extractor ends the call with the error before any lock is touched; a
\* failing sequence extractor ends it with the error, the handler not called,
\* the sequence table as it was, the lock released and the unit given back.
KeyMissing(t) ==
  recv[t] # None /\ ~invoked[t] /\ "id" \notin DOMAIN payload[t]
SeqMissing(t) ==
  /\ recv[t] # None /\ ~invoked[t] /\ recv[t][1].seq_by # "None"
  /\ "id" \in DOMAIN payload[t] /\ "seq" \notin DOMAIN payload[t]
ExtractionErrorsPropagate ==
  \A t \in Tasks :
    /\ (KeyMissing(t) /\ pc[t] # "key_fn") =>
         /\ pc[t] = "done" /\ exc[t] = "ExtractionError"
         /\ k[t] = None /\ glock[t] = None
    /\ (SeqMissing(t) /\ pc[t] \in {"aexit_release"} \cup ReleasedPcs
          /\ ~(pc[t] = "done" /\ exc[t] = "CancelledError")) =>
         /\ exc[t] = "ExtractionError"
         /\ _seq_seen = last_invoked
         /\ pc[t] \in ReleasedPcs => owner[glock[t][1]] # t
         /\ pc[t] = "done" => Accounted(KeyOf(t))
    /\ SeqMissing(t) => pc[t] \notin {"check", "call", "body", "body_await"}
    /\ exc[t] = "ExtractionError" => ~invoked[t] /\ (KeyMissing(t) \/ SeqMissing(t))

\* C10 witness: a call ends with the sequence extractor's error, raised inside
\* the critical section.
W_SeqExtractionError ==
  \E t \in Tasks : pc[t] = "done" /\ exc[t] = "ExtractionError" /\ k[t] # None

\* C11: re-entrant acquisition deadlocks undetected -- a task that holds the
\* lock of key K and acquires K again suspends with no error, on the very lock
\* it holds; K's count is at least 2 and K stays in the table; no other task
\* enters K's critical section; the suspended task and every task that waits
\* for K stay suspended, a task.cancel() from outside being the only way out.
ReentrantWait(t) == pc[t] = "re_wait" /\ fut[t] = "pending"
ReentryState ==
  \A t \in Tasks :
    ReentrantWait(t) =>
      /\ exc[t] = ""
      /\ KeyOf(t) \in DOMAIN _locks /\ _locks[KeyOf(t)] = glock[t][1]
      /\ glock[t] = <<glock[t][1], glock[t][1]>>
      /\ owner[glock[t][1]] = t /\ lock_objs[glock[t][1]].locked
      /\ _refs[KeyOf(t)] >= 2
      /\ \A u \in Tasks \ {t} : (HasKey(u) /\ KeyOf(u) = KeyOf(t)) => ~InCS(u)
ReentryStuck ==
  \A t \in Tasks :
    /\ pc[t] = "re_acquire" => pc'[t] \in {"re_acquire", "re_wait"}
    /\ ReentrantWait(t) => (ReentrantWait(t)' \/ fut'[t] = "cancelled")
    /\ \A u \in Tasks \ {t} :
         (ReentrantWait(t) /\ ReentrantWait(t)' /\ pc[u] = "wait" /\ fut[u] = "pending"
            /\ KeyOf(u) = KeyOf(t))
           => pc'[u] = "wait" /\ fut'[u] \in {"pending", "cancelled"}
ReentryDeadlocks == []ReentryState /\ [][ReentryStuck]_vars

\* C11 witness: a task is suspended on the key it holds, and a task that came
\* for the key afterwards waits behind it.
W_ReentryDeadlock ==
  \E t, u \in Tasks :
    /\ t # u /\ ReentrantWait(t)
    /\ pc[u] = "wait" /\ fut[u] = "pending" /\ KeyOf(u) = KeyOf(t)
    /\ lock_objs[glock[t][1]].waiters = <<t, u>>

\* C12 (as claimed): registration side effects happen under routes_lock -- a
\* step that changes the receiver index (or the parsed routes), and a step that
\* appends to the DNA log, is taken while routes_lock is held.
IndexUnderLock ==
  (receiver_index' # receiver_index \/ receiver_parsed_routes' # receiver_parsed_routes)
    => /\ routes_lock /\ registering # None
       /\ _guard = NoTask /\ _guard' = NoTask
DnaUnderLock == _dna_receivers' # _dna_receivers => routes_lock
RegistrationUnderLock == [][IndexUnderLock /\ DnaUnderLock]_vars

\* C12 (amended): the receiver enters the index (and the parsed routes) while
\* register() holds routes_lock, which is not the keyed mutex's table guard;
\* the DNA record is appended earlier, by the decorator itself, in the step
\* that schedules register() and that neither takes nor needs routes_lock.
LockHeldByRegister == routes_lock <=> registering # None
DnaAtDecoration ==
  _dna_receivers' # _dna_receivers
    => /\ lastReg' = "ok"
       /\ Len(_dna_receivers') = Len(_dna_receivers) + 1
       /\ Len(scheduled') = Len(scheduled) + 1
       /\ UNCHANGED <<routes_lock, registering, receiver_index, receiver_parsed_routes>>
IndexUnderLockDnaBefore ==
  []LockHeldByRegister /\ [][IndexUnderLock /\ DnaAtDecoration]_vars

\* C12 witness: one receiver is in the index, the DNA log has two records and
\* the register() of the second holds routes_lock.
W_SecondRegistering ==
  /\ routes_lock /\ registering # None
  /\ Len(_dna_receivers) = 2
  /\ Cardinality(DOMAIN receiver_index) = 1

\* C13: the table guard is not held across a suspension or user code -- the
\* guard is held exactly by a task inside the lookup/create/increment step of
\* __aenter__ or the decrement/delete step of __aexit__, that task is the one
\* running, and no task that waits for a key's lock or is inside the protected
\* body (sequence extraction, replay check, handler) holds it.
GuardPcs == {"aenter_table", "aenter_unguard", "aexit_table", "aexit_unguard"}
GuardScoped ==
  /\ \A t \in Tasks : (_guard = t) <=> (pc[t] \in GuardPcs)
  /\ _guard # NoTask => running = _guard
  /\ running = NoTask => _guard = NoTask
  /\ \A t \in Tasks :
       (pc[t] \in {"acquire", "wait"} \cup CsPcs) => _guard # t

\* C13 witness: the holder of a key is in the decrement step of __aexit__,
\* with the guard, while another task is suspended waiting for that key.
W_GuardBesideWaiter ==
  \E t, u \in Tasks :
    /\ pc[t] = "aexit_table" /\ _guard = t
    /\ pc[u] = "wait" /\ KeyOf(u) = KeyOf(t)

\* C14: the lock table is mutated only under the table guard -- every step
\* that creates or deletes an entry of _locks / _refs or changes a count is a
\* step of the running task, which holds _guard before and after the step; the
\* guard has one holder, so two tasks never mutate the table at once.
TableUnderGuard ==
  (_locks' # _locks \/ _refs' # _refs)
    => /\ running \in Tasks /\ running' = running
       /\ _guard = running /\ _guard' = running
       /\ pc[running] \in {"aenter_table", "aexit_table"}
TableMutatedUnderGuard == [][TableUnderGuard]_vars

\* C14 witness: a task has raised the count of a held key to 2 and still has
\* the guard.
W_IncrementUnderGuard ==
  \E t \in Tasks :
    /\ pc[t] = "aenter_unguard" /\ _guard = t
    /\ KeyOf(t) \in DOMAIN _refs /\ _refs[KeyOf(t)] = 2

\* C15: entry existence matches the count -- with the table guard free and no
\* acquisition abandoned by a cancellation, _locks and _refs have the same
\* keys, every stored count is positive and equals the number of tasks that
\* hold the key's lock, wait for it, or released it and have not yet run their
\* decrement; a key is in the table iff there is such a task; an entry leaves
\* the table in the step that takes its count from 1 to zero, and in no other.
EntryMatchesCount ==
  (_guard = NoTask /\ AbandonedTotal = 0) =>
    /\ DOMAIN _locks = DOMAIN _refs
    /\ \A key \in DOMAIN _refs :
         _refs[key] > 0 /\ _refs[key] = Cardinality(Holders(key))
    /\ \A key \in LockKeys : (key \in DOMAIN _locks) <=> (Holders(key) # {})
RemovedAtZero ==
  \A key \in DOMAIN _refs :
    /\ key \notin DOMAIN _refs' => _refs[key] = 1 /\ key \notin DOMAIN _locks'
    /\ key \in DOMAIN _refs' =>
         /\ _refs'[key] \in {_refs[key] - 1, _refs[key], _refs[key] + 1}
         /\ _refs'[key] >= 1
         /\ key \in DOMAIN _locks' /\ _locks'[key] = _locks[key]
EntryIffCounted == []EntryMatchesCount /\ [][RemovedAtZero]_vars

\* C15 witness: the guard is free, one task is suspended in the handler of a
\* key and another waits for the key: the count is 2.
W_CountTwo ==
  \E t, u \in Tasks :
    /\ _guard = NoTask /\ AbandonedTotal = 0
    /\ pc[t] = "body_await" /\ pc[u] = "wait"
    /\ KeyOf(u) = KeyOf(t) /\ _refs[KeyOf(t)] = 2

\* C16: sequence-table accesses are serialized by the key's mutex -- the task
\* that reads the last sequence of (route, key) holds, at that moment, the
\* lock stored in the table for exactly that pair; an entry is written only by
\* that task, in the step that read it (no await lies between the read and the
\* write), and no other task of the pair is inside the critical section then.
HoldsKeyLock(t) ==
  /\ glock[t] # None /\ HasKey(t)
  /\ owner[glock[t][1]] = t /\ lock_objs[glock[t][1]].locked
  /\ KeyOf(t) \in DOMAIN _locks /\ _locks[KeyOf(t)] = glock[t][1]
SeqReadUnderLock ==
  \A t \in Tasks :
    pc[t] = "check" =>
      /\ HoldsKeyLock(t) /\ running = t
      /\ \A u \in Tasks \ {t} : (HasKey(u) /\ KeyOf(u) = KeyOf(t)) => ~InCS(u)
SeqWriteUnderLock ==
  \A key \in LockKeys :
    DictGet(_seq_seen', key) # DictGet(_seq_seen, key)
      => /\ running \in Tasks /\ running' = running
         /\ pc[running] = "check" /\ pc'[running] = "call"
         /\ KeyOf(running) = key
         /\ HoldsKeyLock(running) /\ HoldsKeyLock(running)'
         /\ _seq_seen'[key] = s[running][1]
SeqTableSerialized == []SeqReadUnderLock /\ [][SeqWriteUnderLock]_vars

\* C16 witness: a task is about to compare its sequence with the recorded one
\* while another delivery of the pair waits for the lock.
W_CheckBesideWaiter ==
  \E t, u \in Tasks :
    /\ pc[t] = "check" /\ s[t] # None /\ KeyOf(t) \in DOMAIN _seq_seen
    /\ pc[u] = "wait" /\ KeyOf(u) = KeyOf(t)

\* C17: no two live mutex objects for one key -- every task that has counted
\* itself for key K (it holds K's lock, waits for it, or is about to) refers
\* to the lock object stored in the table for K, there is one live lock object
\* per key, and an entry leaves the table only when no other task still holds
\* or waits on its lock.
OneLockPerKey ==
  /\ \A t \in Tasks :
       (glock[t] # None /\ pc[t] \in CountedPcs) =>
         /\ KeyOf(t) \in DOMAIN _locks
         /\ _locks[KeyOf(t)] = glock[t][1]
  /\ \A o1, o2 \in DOMAIN lock_objs : o1[1] = o2[1] => o1 = o2
NoEvictionUnderUsers ==
  \A key \in DOMAIN _locks :
    key \notin DOMAIN _locks' =>
      \A u \in Tasks \ {running} :
        ~(glock[u] # None /\ glock[u][1] = _locks[key])
SingleLockObject == []OneLockPerKey /\ [][NoEvictionUnderUsers]_vars

\* C17 witness: a task released a key's lock and is about to decrement the
\* count while the waiter it woke still refers to the stored lock object.
W_ReleasedBesideWaiter ==
  \E t, u \in Tasks :
    /\ pc[t] = "aexit_table" /\ pc[u] = "wait" /\ fut[u] = "done"
    /\ KeyOf(u) = KeyOf(t) /\ glock[u] = glock[t]
    /\ _locks[KeyOf(t)] = glock[u][1]

\* C18: concurrent duplicates run the handler once -- among the deliveries of
\* one (route, key) that carry the same sequence s, the handler is called at
\* most once; a delivery whose s was greater than the recorded sequence when
\* it started and that is dropped all the same finds a sequence >= s recorded
\* by a delivery that ran beside it, and when that is s itself (duplicates
\* only) the handler was called exactly once for s; a delivery that passed the
\* sequence extraction and does not call the handler returns the no-op outcome.
Fresh(u) == s[u] # None /\ (seen0[u] = None \/ seen0[u][1] < s[u][1])
DuplicatesRunOnce ==
  /\ \A key \in LockKeys : \A v \in SeqVals : CallsOf(key, v) <= 1
  /\ \A u \in Tasks :
       /\ (invoked[u] /\ s[u] # None) =>
            CallsOf(KeyOf(u), s[u][1]) = 1 /\ exc[u] # "Dropped"
       /\ (Fresh(u) /\ exc[u] = "Dropped") =>
            /\ ~invoked[u]
            /\ KeyOf(u) \in DOMAIN _seq_seen /\ _seq_seen[KeyOf(u)] >= s[u][1]
            /\ _seq_seen[KeyOf(u)] = s[u][1] => CallsOf(KeyOf(u), s[u][1]) = 1
       /\ (s[u] # None /\ ~invoked[u] /\ pc[u] \in {"aexit_release"} \cup ReleasedPcs)
            => exc[u] = "Dropped"

\* C18 witness: with a smaller sequence recorded, two deliveries of the key
\* started with the same greater sequence; the handler ran for one, and the
\* other has been dropped.
W_DuplicateDropped ==
  \E u \in Tasks :
    /\ exc[u] = "Dropped" /\ Fresh(u) /\ seen0[u] # None
    /\ _seq_seen[KeyOf(u)] = s[u][1]
    /\ CallsOf(KeyOf(u), s[u][1]) = 1

\* C19: the sequence is consumed before the handler runs and is not rolled
\* back -- s is the recorded sequence when the handler is about to be called;
\* a recorded sequence is never removed or lowered, whatever the handler does;
\* for a pair whose handler call raised or was cancelled, s stays recorded,
\* the handler was called once and is never called for s again: a later
\* delivery of the pair with s is dropped as stale.
ConsumedNotRolledBack ==
  /\ \A t \in Tasks :
       /\ (pc[t] = "call" /\ s[t] # None) => DictGet(_seq_seen, KeyOf(t)) = s[t]
       /\ (invoked[t] /\ s[t] # None) =>
            KeyOf(t) \in DOMAIN _seq_seen /\ _seq_seen[KeyOf(t)] >= s[t][1]
       /\ (HasKey(t) /\ s[t] # None /\ ~invoked[t] /\ <<KeyOf(t), s[t][1]>> \in failed) =>
            /\ pc[t] # "call"
            /\ pc[t] \in {"aexit_release"} \cup ReleasedPcs => exc[t] = "Dropped"
  /\ \A f \in failed :
       /\ f[1] \in DOMAIN _seq_seen /\ _seq_seen[f[1]] >= f[2]
       /\ CallsOf(f[1], f[2]) = 1
SeqNeverLowered ==
  \A key \in DOMAIN _seq_seen :
    key \in DOMAIN _seq_seen' /\ _seq_seen'[key] >= _seq_seen[key]
SeqConsumedFirst == []ConsumedNotRolledBack /\ [][SeqNeverLowered]_vars

\* C19 witness: the handler call for (key, s) failed, and a later delivery of
\* the same pair and sequence has been dropped.
W_RedeliveryDropped ==
  \E u \in Tasks :
    /\ exc[u] = "Dropped" /\ ~invoked[u]
    /\ <<KeyOf(u), s[u][1]>> \in failed

\* C20: progress without deadlock -- for a finite set of deliveries, with
\* handlers that terminate, no re-entry and no cancellation, under the event
\* loop's scheduling: a pending waiter's lock is held or has a woken waiter
\* (no task waits on a free lock nobody will take), every waiter enters its
\* critical section, every task inside leaves it, every call of wrapped
\* completes, and in the end the lock table stays empty.
NoLostWakeup ==
  \A t \in Tasks :
    (pc[t] = "wait" /\ fut[t] = "pending") =>
      \/ lock_objs[glock[t][1]].locked
      \/ \E i \in 1..Len(lock_objs[glock[t][1]].waiters) :
           fut[lock_objs[glock[t][1]].waiters[i]] = "done"
Quiescent ==
  /\ \A t \in Tasks : pc[t] = "idle"
  /\ running = NoTask /\ _guard = NoTask
  /\ _locks = EmptyDict /\ _refs = EmptyDict
ProgressNoDeadlock ==
  /\ []NoLostWakeup
  /\ \A t \in Tasks : (pc[t] = "wait") ~> InCS(t)
  /\ \A t \in Tasks : InCS(t) ~> ~InCS(t)
  /\ \A t \in Tasks : (pc[t] # "idle") ~> (pc[t] = "idle")
  /\ <>[]Quiescent

\* C20 witness: every delivery of the set was made, handlers ran, every call
\* has completed and the table is empty.
W_AllCompleted ==
  /\ delivered = MaxDeliveries /\ Quiescent
  /\ last_invoked # EmptyDict

====
